---- MODULE Spec2Model ----
(***************************************************************************)
(* OpenLabs API: the authentication subsystem.                             *)
(*   core/auth/auth.py          get_current_user, is_admin                 *)
(*   core/middlewares/auth.py   auth_exception_middleware                  *)
(*   api/v1/auth.py             login, register_new_user                   *)
(*   crud/crud_users.py         get_user, get_user_by_id, create_user      *)
(*                                                                         *)
(* Time is counted in minutes.  A Python string that the code builds or    *)
(* takes apart is a sequence of atoms, the colon being an atom of its own: *)
(* "auth:expired:Token has expired" is                                     *)
(* <<"auth", ":", "expired", ":", "Token has expired">>.                   *)
(***************************************************************************)
EXTENDS Integers, Sequences, FiniteSets, TLC

\* ------------------------------------------------------------- bounds
\* The wall clock runs from 0 to MaxTime.
MaxTime == 3
\* The UUIDs a user record can get.
NumUUIDs == 2
NumProcs == 2

\* ------------------------------------------------- configuration values
ACCESS_TOKEN_EXPIRE_MINUTES == 2
SECRET_KEY == "secret"
OTHER_KEY == "other-secret"
router_prefix == <<"/", "api", "/", "v1">>

HTTP_200_OK == 200
HTTP_401_UNAUTHORIZED == 401
HTTP_403_FORBIDDEN == 403
HTTP_409_CONFLICT == 409
HTTP_422_UNPROCESSABLE_ENTITY == 422
HTTP_500_INTERNAL_SERVER_ERROR == 500

\* ------------------------------------------------------------ UUIDs
UUIDs == 1..NumUUIDs
NoUUID == 0

\* str(user_id): the string form of a UUID.
UUIDStr(u) ==
    CASE u = 1 -> "uuid-1"
      [] u = 2 -> "uuid-2"
      [] u = 3 -> "uuid-3"
      [] u = 4 -> "uuid-4"
      [] OTHER -> "uuid-n"

\* A string is the string form of a UUID.
IsUUIDStr(s) == \E u \in UUIDs : UUIDStr(u) = s

\* UserID(id=user_id): the schema object validates that id is a UUID; a
\* string that is none raises a validation error (a ValueError subclass).
UserID(s) ==
    IF IsUUIDStr(s)
    THEN [ok |-> TRUE, id |-> CHOOSE u \in UUIDs : UUIDStr(u) = s]
    ELSE [ok |-> FALSE, id |-> NoUUID]

\* -------------------------------------------------------------- time
\* datetime.fromtimestamp(ts, tz=UTC) raises (ValueError or OverflowError)
\* beyond the last representable instant, the end of year 9999.
DatetimeMaxTimestamp == MaxTime + ACCESS_TOKEN_EXPIRE_MINUTES + 1
HugeTimestamp == DatetimeMaxTimestamp + 1

\* ------------------------------------------------------------ tokens
EmptyDict == [k \in {} |-> 0]

\* jwt.encode(payload, key): a signed token is its payload and the key that
\* signed it.
JwtEncode(payload, key) == [form |-> "jwt", key |-> key, payload |-> payload]

\* A string that is no token at all, the empty string, and None.
JunkToken == [form |-> "junk", key |-> "", payload |-> EmptyDict]
EmptyString == [form |-> "empty", key |-> "", payload |-> EmptyDict]
None == [form |-> "none", key |-> "", payload |-> EmptyDict]

\* Python truthiness of an Optional[str].
Truthy(s) == s.form \notin {"none", "empty"}

\* jwt.decode(token, key, algorithms=[ALGORITHM]) at wall-clock time t.  With
\* the library's default options the signature is verified and an "exp"
\* claim, when present, is verified too: exp <= now raises
\* ExpiredSignatureError.  Every error is a jwt.PyJWTError.
JwtDecode(token, key, t) ==
    IF token.form # "jwt"
    THEN [ok |-> FALSE, err |-> "DecodeError", payload |-> EmptyDict]
    ELSE IF token.key # key
    THEN [ok |-> FALSE, err |-> "InvalidSignatureError", payload |-> EmptyDict]
    ELSE IF "exp" \in DOMAIN token.payload /\ token.payload.exp <= t
    THEN [ok |-> FALSE, err |-> "ExpiredSignatureError", payload |-> EmptyDict]
    ELSE [ok |-> TRUE, err |-> "", payload |-> token.payload]

\* ---------------------------------------------------- failures raised
ValueError(msg) == [type |-> "ValueError", msg |-> msg]
NoException == [type |-> "", msg |-> <<>>]

\* The auth:<kind>:<detail> string of a classified failure.
AuthMsg(kind, detail) == <<"auth", ":", kind, ":">> \o detail

MSG_MISSING == AuthMsg("missing_credentials", <<"Authentication credentials missing">>)
MSG_INVALID_CREDENTIALS == AuthMsg("invalid_credentials", <<"Invalid authentication credentials">>)
MSG_NO_EXPIRATION == AuthMsg("no_expiration", <<"Token has no expiration">>)
MSG_EXPIRED == AuthMsg("expired", <<"Token has expired">>)
MSG_USER_NOT_FOUND == AuthMsg("user_not_found", <<"User not found">>)
MSG_INVALID_TOKEN == AuthMsg("invalid_token", <<"Invalid authentication credentials">>)
MSG_FORBIDDEN == AuthMsg("forbidden", <<"Not enough permissions">>)

\* ------------------------------------------------------- the user store
Emails == {"ann@x"}
Passwords == {"pw1", "pw2"}
RegisterPasswords == {"pw1"}
Salts == {"salt"}

\* bcrypt: hashpw(password, salt) and checkpw(password, hashed), which hashes
\* the password with the digest's own salt and compares.
hashpw(password, salt) == [salt |-> salt, digest |-> <<"bcrypt", salt, password>>]
checkpw(password, hashed) == hashpw(password, hashed.salt) = hashed
NoHash == [salt |-> "", digest |-> <<>>]

\* "No row": what .first() gives on an empty result (None).
NoUser == [id |-> NoUUID, email |-> "", hashed_password |-> NoHash,
           is_admin |-> FALSE, last_active |-> 0]

\* get_user(db, email): select ... where email == email, .first().
get_user(db, email) ==
    LET rows == {u \in db : u.email = email}
    IN  IF rows = {} THEN NoUser ELSE CHOOSE u \in rows : TRUE

\* get_user_by_id(db, user_id): select ... where id == user_id.id, .first().
get_user_by_id(db, id) ==
    LET rows == {u \in db : u.id = id}
    IN  IF rows = {} THEN NoUser ELSE CHOOSE u \in rows : TRUE

\* -------------------------------------------------- get_current_user
\* What a dependency or handler ends with: a value returned or an exception
\* raised, and the store it leaves behind.
Return(user, db) == [ret |-> TRUE, exc |-> NoException, user |-> user, db |-> db]
Raise(exc, db) == [ret |-> FALSE, exc |-> exc, user |-> NoUser, db |-> db]

\* Faulty variant: The Authorization header first.
TokenOfHeaderFirst(token, credentials) ==
    IF Truthy(credentials) THEN credentials ELSE token

\* The cookie first, the Authorization header only without a cookie.
TokenOf(token, credentials) == IF Truthy(token) THEN token ELSE credentials

\* An "exp" beyond the datetime range makes datetime.fromtimestamp raise.
FromTimestampRaises(expiration) == expiration > DatetimeMaxTimestamp

\* Faulty variant: The update reaches every row.
TouchAll(db, user, t) == {[u EXCEPT !.last_active = t] : u \in db}

\* The user's row with last_active set, as committed.
Touch(db, user, t) ==
    (db \ {user}) \cup {[user EXCEPT !.last_active = t]}

\* get_current_user(request, token, credentials, db).  The wall clock is read
\* three times: t1 by jwt.decode, t2 by the expiry check, t3 for last_active.
\* commit: whether db.commit() succeeds.
get_current_user(token, credentials, db, t1, t2, t3, commit) ==
    IF ~Truthy(token) /\ ~Truthy(credentials)
    THEN Raise(ValueError(MSG_MISSING), db)
    ELSE
    LET jwt_token == TokenOf(token, credentials)
        decoded == JwtDecode(jwt_token, SECRET_KEY, t1)
        payload == decoded.payload
    IN  IF ~decoded.ok THEN Raise(ValueError(MSG_INVALID_TOKEN), db)
        ELSE IF "user" \notin DOMAIN payload
        THEN Raise(ValueError(MSG_INVALID_CREDENTIALS), db)
        ELSE IF "exp" \notin DOMAIN payload
        THEN Raise(ValueError(MSG_NO_EXPIRATION), db)
        ELSE IF FromTimestampRaises(payload.exp)
        THEN Raise(ValueError(<<"year is out of range">>), db)
        ELSE IF t2 > payload.exp THEN Raise(ValueError(MSG_EXPIRED), db)
        ELSE
        LET user_id == UserID(payload.user)
            user == get_user_by_id(db, user_id.id)
        IN  IF ~user_id.ok
            THEN Raise([type |-> "ValidationError",
                        msg |-> <<"1 validation error for UserID">>], db)
            ELSE IF user = NoUser THEN Raise(ValueError(MSG_USER_NOT_FOUND), db)
            ELSE IF ~commit
            THEN Raise([type |-> "DBAPIError", msg |-> <<"commit failed">>], db)
            ELSE Return([user EXCEPT !.last_active = t3], Touch(db, user, t3))

\* Faulty variant: The flag is not looked at.
is_admin_unchecked(current) == current

\* is_admin(user), composed after get_current_user.
is_admin(current) ==
    IF ~current.ret THEN current
    ELSE IF ~current.user.is_admin
    THEN Raise(ValueError(MSG_FORBIDDEN), current.db)
    ELSE current

\* ------------------------------------------------- responses
NoHeaders == {}
WWW_AUTHENTICATE == <<"WWW-Authenticate", "Bearer">>

\* A JSON response: the status, the body's "detail" (or the login's "token",
\* or the register's "id") and the headers.
NoResponse == [status |-> 0, detail |-> <<>>, headers |-> NoHeaders,
               token |-> None, id |-> NoUUID]
JSONResponse(status_code, detail, headers) ==
    [NoResponse EXCEPT !.status = status_code, !.detail = detail,
                       !.headers = headers]

\* What call_next (and the middleware around it) ends with: a response, or
\* an exception on its way up.
Responded(resp) == [kind |-> "response", resp |-> resp, exc |-> NoException]
Raised(exc) == [kind |-> "raise", resp |-> NoResponse, exc |-> exc]

\* raise HTTPException(status_code=..., detail=...): no headers are given, and
\* the framework answers with that status and {"detail": detail}.
HTTPException(status_code, detail) ==
    Responded(JSONResponse(status_code, detail, NoHeaders))

\* ------------------------------------------- auth_exception_middleware
\* Faulty variant: except Exception.
IsException(exc) == exc.type # ""

\* except ValueError: the class and its subclasses.
IsValueError(exc) == exc.type \in {"ValueError", "ValidationError"}

\* error_str.startswith(prefix)
StartsWith(str, prefix) ==
    /\ Len(str) >= Len(prefix)
    /\ SubSeq(str, 1, Len(prefix)) = prefix

\* Faulty variant: error_str.split(":"): every colon splits.
RECURSIVE SplitAll(_, _)
SplitAll(str, maxsplit) ==
    IF \A i \in 1..Len(str) : str[i] # ":"
    THEN <<str>>
    ELSE LET i == CHOOSE j \in 1..Len(str) :
                      /\ str[j] = ":"
                      /\ \A k \in 1..(j - 1) : str[k] # ":"
         IN  <<SubSeq(str, 1, i - 1)>>
                 \o SplitAll(SubSeq(str, i + 1, Len(str)), maxsplit)

\* error_str.split(":", maxsplit)
RECURSIVE Split(_, _)
Split(str, maxsplit) ==
    IF maxsplit = 0 \/ \A i \in 1..Len(str) : str[i] # ":"
    THEN <<str>>
    ELSE LET i == CHOOSE j \in 1..Len(str) :
                      /\ str[j] = ":"
                      /\ \A k \in 1..(j - 1) : str[k] # ":"
         IN  <<SubSeq(str, 1, i - 1)>>
                 \o Split(SubSeq(str, i + 1, Len(str)), maxsplit - 1)

\* status_codes.get(error_type, HTTP_500_INTERNAL_SERVER_ERROR)
status_codes(error_type) ==
    CASE error_type = <<"missing_credentials">> -> HTTP_401_UNAUTHORIZED
      [] error_type = <<"invalid_credentials">> -> HTTP_401_UNAUTHORIZED
      [] error_type = <<"no_expiration">> -> HTTP_401_UNAUTHORIZED
      [] error_type = <<"expired">> -> HTTP_401_UNAUTHORIZED
      [] error_type = <<"user_not_found">> -> HTTP_401_UNAUTHORIZED
      [] error_type = <<"invalid_token">> -> HTTP_401_UNAUTHORIZED
      [] error_type = <<"forbidden">> -> HTTP_403_FORBIDDEN
      [] OTHER -> HTTP_500_INTERNAL_SERVER_ERROR

\* headers["WWW-Authenticate"] = "Bearer" for a 401.
ChallengeHeaders(status_code) ==
    IF status_code = HTTP_401_UNAUTHORIZED THEN {WWW_AUTHENTICATE} ELSE NoHeaders

\* The ValueError handler: translate an auth:<type>:<detail> message.
Translate(inner) ==
    LET error_str == inner.exc.msg
        parts == Split(error_str, 2)
    IN  IF StartsWith(error_str, <<"auth", ":">>) /\ Len(parts) >= 3
        THEN LET status_code == status_codes(parts[2])
             IN  Responded(JSONResponse(status_code, parts[3],
                                        ChallengeHeaders(status_code)))
        ELSE inner

\* auth_exception_middleware(request, call_next, router_prefix): inner is
\* what call_next(request) ends with.  The path and the prefix are passed
\* in and not read.
auth_exception_middleware(path, prefix, inner) ==
    IF inner.kind = "raise" /\ IsValueError(inner.exc)
    THEN Translate(inner)
    ELSE inner

\* ------------------------------------------------------------ login
LOGIN_FAILED == <<"Invalid credentials or user does not exist">>

\* Faulty variant: The expiry is the time of issue.
data_dict_expiring_now(user_id, t) == [user |-> UUIDStr(user_id), exp |-> t]

\* The claims login signs: {"user": str(user_id), "exp": now + the expiry}.
\* jwt.encode turns the datetime into its timestamp.
data_dict(user_id, t) ==
    [user |-> UUIDStr(user_id), exp |-> t + ACCESS_TOKEN_EXPIRE_MINUTES]

\* Faulty variant: An unknown email is told apart from a wrong password.
login_telling(db, email, password, t) ==
    LET user == get_user(db, email)
    IN  IF user = NoUser
        THEN HTTPException(HTTP_401_UNAUTHORIZED, <<"User does not exist">>)
        ELSE IF ~checkpw(password, user.hashed_password)
        THEN HTTPException(HTTP_401_UNAUTHORIZED, LOGIN_FAILED)
        ELSE Responded([NoResponse EXCEPT
                 !.status = HTTP_200_OK,
                 !.token = JwtEncode(data_dict(user.id, t), SECRET_KEY)])

\* login(openlabs_user, db) at wall-clock time t.
login(db, email, password, t) ==
    LET user == get_user(db, email)
    IN  IF user = NoUser
        THEN HTTPException(HTTP_401_UNAUTHORIZED, LOGIN_FAILED)
        ELSE IF ~checkpw(password, user.hashed_password)
        THEN HTTPException(HTTP_401_UNAUTHORIZED, LOGIN_FAILED)
        ELSE Responded([NoResponse EXCEPT
                 !.status = HTTP_200_OK,
                 !.token = JwtEncode(data_dict(user.id, t), SECRET_KEY)])

\* --------------------------------------------------------- register
\* A secrets row: the empty SecretSchema with its owner's id.
SecretModel(user_id) == [user_id |-> user_id]

\* The columns of the users table that a constraint keeps unique: the
\* primary key.  No constraint on email is known.
UniqueColumns == {"id"}
Collides(rows, user_obj) ==
    \E u \in rows : \E c \in UniqueColumns : u[c] = user_obj[c]

\* Faulty variant: The user row is committed before the secrets row is.
create_user_two_commits(db, email, password, admin, salt, id, t, commit) ==
    LET user_obj == [id |-> id, email |-> email,
                     hashed_password |-> hashpw(password, salt),
                     is_admin |-> admin, last_active |-> t]
        secrets_object == SecretModel(id)
    IN  IF id \in {u.id : u \in db.users}
        THEN [raised |-> TRUE,
              exc |-> [type |-> "DBAPIError", msg |-> <<"commit failed">>],
              user |-> NoUser, db |-> db]
        ELSE IF commit
        THEN [raised |-> FALSE, exc |-> NoException, user |-> user_obj,
              db |-> [users |-> db.users \cup {user_obj},
                      secrets |-> db.secrets \cup {secrets_object}]]
        ELSE [raised |-> TRUE,
              exc |-> [type |-> "DBAPIError", msg |-> <<"commit failed">>],
              user |-> NoUser,
              db |-> [users |-> db.users \cup {user_obj},
                      secrets |-> db.secrets]]

\* create_user(db, openlabs_user, is_admin): the user row and its empty
\* secrets row are added to the session and committed together.  id is the
\* UUID the new row gets, the primary key; commit: whether db.commit()
\* succeeds otherwise.  db is the pair of tables.
create_user(db, email, password, admin, salt, id, t, commit) ==
    LET user_obj == [id |-> id, email |-> email,
                     hashed_password |-> hashpw(password, salt),
                     is_admin |-> admin, last_active |-> t]
        secrets_object == SecretModel(id)
    IN  IF commit /\ ~Collides(db.users, user_obj)
        THEN [raised |-> FALSE, exc |-> NoException, user |-> user_obj,
              db |-> [users |-> db.users \cup {user_obj},
                      secrets |-> db.secrets \cup {secrets_object}]]
        ELSE [raised |-> TRUE,
              exc |-> [type |-> "DBAPIError", msg |-> <<"commit failed">>],
              user |-> NoUser, db |-> db]

\* Faulty variant: No look for an existing user before creating one.
register_unchecked(db, email, password, salt, id, t, commit) ==
    LET created == create_user(db, email, password, FALSE, salt, id, t, commit)
    IN  IF created.raised
        THEN [out |-> Raised(created.exc), db |-> created.db]
        ELSE [out |-> Responded([NoResponse EXCEPT !.status = HTTP_200_OK,
                                                   !.id = created.user.id]),
              db |-> created.db]

\* register_new_user(openlabs_user, db): what the endpoint ends with, and
\* the tables it leaves.
register_new_user(db, email, password, salt, id, t, commit) ==
    LET existing_user == get_user(db.users, email)
        created == create_user(db, email, password, FALSE, salt, id, t, commit)
    IN  IF existing_user # NoUser
        THEN [out |-> HTTPException(HTTP_409_CONFLICT, <<"User already exists">>),
              db |-> db]
        ELSE IF created.raised
        THEN [out |-> Raised(created.exc), db |-> created.db]
        ELSE IF created.user = NoUser
        THEN [out |-> HTTPException(HTTP_422_UNPROCESSABLE_ENTITY,
                                    <<"Unable to create user">>),
              db |-> created.db]
        ELSE [out |-> Responded([NoResponse EXCEPT !.status = HTTP_200_OK,
                                                   !.id = created.user.id]),
              db |-> created.db]

\* =================================================== the state machine
VARIABLES
    users,      \* the user table: a set of rows
    secrets,    \* the secrets table: a set of rows
    now,        \* the wall clock (UTC)
    last,       \* the request handled last: what came in and how it ended
    procs       \* the requests in flight, when requests overlap

vars == <<users, secrets, now, last, procs>>

\* ------------------------------------------------------ request inputs
API_PATH == router_prefix \o <<"/", "templates">>
OTHER_PATH == <<"/", "health">>
LOGIN_PATH == router_prefix \o <<"/", "auth", "/", "login">>
REGISTER_PATH == router_prefix \o <<"/", "auth", "/", "register">>

ADMIN_EMAIL == "admin@x"
AdminUUID == NumUUIDs

\* Claims a presented token may carry: with or without "user" (the string
\* form of a UUID, or some other string), with or without "exp" (soon, late,
\* or beyond the datetime range).
SubjectInputs == {UUIDStr(1), "not-a-uuid"}
ExpInputs == {1, MaxTime, HugeTimestamp}
PayloadInputs ==
    {EmptyDict}
        \cup {[user |-> s] : s \in SubjectInputs}
        \cup {[exp |-> e] : e \in ExpInputs}
        \cup {[user |-> s, exp |-> e] : s \in SubjectInputs, e \in ExpInputs}
\* Tokens signed with another secret.
OtherKeyPayloads ==
    {EmptyDict, [exp |-> 1], [user |-> UUIDStr(1), exp |-> MaxTime]}
SignedInputs == {JwtEncode(p, SECRET_KEY) : p \in PayloadInputs}
ForeignInputs == {JwtEncode(p, OTHER_KEY) : p \in OtherKeyPayloads}

\* The token the login answered last holds, when it was a login.
IssuedToken == IF last.op = "login" THEN {last.out.resp.token} \ {None} ELSE {}

\* What the cookie can hold, and the Authorization header next to it.
CookieInputs ==
    {None, EmptyString, JunkToken} \cup SignedInputs \cup ForeignInputs
        \cup IssuedToken
HeaderInputs ==
    {None,
     JwtEncode([user |-> UUIDStr(1), exp |-> MaxTime], SECRET_KEY),
     JwtEncode([user |-> UUIDStr(1), exp |-> 1], SECRET_KEY),
     JwtEncode([user |-> UUIDStr(1), exp |-> MaxTime], OTHER_KEY)}
        \cup IssuedToken
\* The requests to a route that needs a user: the path, the cookie, the
\* header, and whether db.commit() succeeds.
AuthInputs ==
    {<<API_PATH, c, None, TRUE>> : c \in CookieInputs}
        \cup {<<API_PATH, c, h, TRUE>> : c \in {None, EmptyString},
                                         h \in HeaderInputs \ {None}}
        \cup {<<API_PATH, c, h, TRUE>> : c \in HeaderInputs \ {None},
                                         h \in HeaderInputs \ {None}}
        \cup {<<OTHER_PATH, c, None, TRUE>> : c \in {None} \cup IssuedToken}
        \cup {<<API_PATH, c, None, FALSE>> : c \in IssuedToken}

\* What a handler behind the middleware can raise by itself.
RawExceptions ==
    {[type |-> "RuntimeError", msg |-> <<"auth", ":", "expired", ":", "boom">>],
     ValueError(<<"boom">>),
     ValueError(MSG_EXPIRED),
     ValueError(<<"auth", ":", "short">>),
     ValueError(<<"auth", ":", "teapot", ":", "I am", ":", "a teapot">>),
     ValueError(<<"auth", ":", "forbidden", ":", "a", ":", ":", "b">>),
     ValueError(<<"auth", ":", ":">>),
     ValueError(<<"authority", ":", "expired", ":", "x">>)}

\* The requests whose handler raises: the path and the exception.
RawInputs ==
    {<<API_PATH, exc>> : exc \in RawExceptions}
        \cup {<<OTHER_PATH, ValueError(MSG_EXPIRED)>>,
              <<OTHER_PATH, ValueError(<<"boom">>)>>}

\* ------------------------------------------------------------- Init
NoCurrent == [ret |-> FALSE, exc |-> NoException, uid |-> NoUUID]
Current(cur) == [ret |-> cur.ret, exc |-> cur.exc, uid |-> cur.user.id]

NoRequest ==
    [op |-> "none", path |-> <<>>, email |-> "", password |-> "",
     token |-> None, credentials |-> None, t1 |-> 0, t3 |-> 0,
     commit |-> TRUE, cur |-> NoCurrent,
     inner |-> Responded(NoResponse), out |-> Responded(NoResponse),
     issued_to |-> NoUUID, issued_exp |-> 0]

\* The tables as the application starts: they hold the admin that
\* create_user(db, admin, is_admin=True) made.
SeededAdmin ==
    create_user([users |-> {}, secrets |-> {}], ADMIN_EMAIL, "pw1", TRUE,
                "salt", AdminUUID, 0, TRUE).db

\* The requests that can be in flight together, and one not yet begun.
Procs == 1..NumProcs
Idle ==
    [op |-> "none", pc |-> "idle", email |-> "", token |-> None,
     uid |-> NoUUID, t |-> 0, ret |-> FALSE, exc |-> NoException,
     out |-> Responded(NoResponse)]

Init ==
    /\ \E db \in {SeededAdmin} :
           /\ users = db.users
           /\ secrets = db.secrets
    /\ now = 0
    /\ last = NoRequest
    /\ procs = [p \in Procs |-> Idle]

\* ----------------------------------------------------------- actions
\* The wall clock advances.
Tick ==
    /\ now < MaxTime
    /\ now' = now + 1
    /\ UNCHANGED <<users, secrets, last, procs>>

\* For whom and until when the presented token was issued, when it is the
\* token the login before this request answered with.
IssuedTo(jwt_token) ==
    IF jwt_token \in IssuedToken
    THEN get_user(users, last.email).id
    ELSE NoUUID
IssuedExp(jwt_token) ==
    IF jwt_token \in IssuedToken
    THEN last.t1 + ACCESS_TOKEN_EXPIRE_MINUTES
    ELSE 0

\* A request to a route that depends on get_current_user.
ProtectedReq ==
    \E in \in AuthInputs :
    \E t2 \in now..MaxTime :
    \E t3 \in {t2} :
        LET path == in[1]
            cc == <<in[2], in[3]>>
            commit == in[4]
            cur == get_current_user(cc[1], cc[2], users, now, t2, t3, commit)
            inner == IF cur.ret
                     THEN Responded(JSONResponse(HTTP_200_OK, <<>>, NoHeaders))
                     ELSE Raised(cur.exc)
            out == auth_exception_middleware(path, router_prefix, inner)
        IN  /\ users' = cur.db
            /\ now' = t3
            /\ last' = [NoRequest EXCEPT
                   !.op = "protected", !.path = path, !.token = cc[1],
                   !.credentials = cc[2], !.t1 = now, !.t3 = t3,
                   !.commit = commit, !.cur = Current(cur),
                   !.inner = inner, !.out = out,
                   !.issued_to = IssuedTo(TokenOf(cc[1], cc[2])),
                   !.issued_exp = IssuedExp(TokenOf(cc[1], cc[2]))]
            /\ UNCHANGED <<secrets, procs>>

\* The cookies of the requests to an admin route: none, the token just
\* issued, a token issued earlier that is valid until MaxTime.
AdminInputs ==
    {None} \cup IssuedToken
        \cup {JwtEncode([user |-> UUIDStr(u), exp |-> MaxTime], SECRET_KEY) :
                  u \in UUIDs}

\* A request to a route that depends on is_admin.
AdminReq ==
    \E c \in AdminInputs, commit \in {TRUE} :
    \E t3 \in now..MaxTime :
        LET cur == is_admin(get_current_user(c, None, users, now, t3, t3, commit))
            inner == IF cur.ret
                     THEN Responded(JSONResponse(HTTP_200_OK, <<>>, NoHeaders))
                     ELSE Raised(cur.exc)
            out == auth_exception_middleware(API_PATH, router_prefix, inner)
        IN  /\ users' = cur.db
            /\ now' = t3
            /\ last' = [NoRequest EXCEPT
                   !.op = "admin", !.path = API_PATH, !.token = c,
                   !.t1 = now, !.t3 = t3, !.commit = commit,
                   !.cur = Current(cur), !.inner = inner, !.out = out]
            /\ UNCHANGED <<secrets, procs>>

\* A request whose handler raises by itself.
RawReq ==
    \E in \in RawInputs :
        LET path == in[1]
            exc == in[2]
            inner == Raised(exc)
            out == auth_exception_middleware(path, router_prefix, inner)
        IN  /\ last' = [NoRequest EXCEPT
                   !.op = "raw", !.path = path, !.t1 = now, !.t3 = now,
                   !.inner = inner, !.out = out]
            /\ UNCHANGED <<users, secrets, now, procs>>

\* POST /auth/login
LoginReq ==
    \E email \in Emails \cup {ADMIN_EMAIL}, password \in Passwords :
        LET inner == login(users, email, password, now)
            out == auth_exception_middleware(LOGIN_PATH, router_prefix, inner)
        IN  /\ last' = [NoRequest EXCEPT
                   !.op = "login", !.path = LOGIN_PATH, !.email = email,
                   !.password = password, !.t1 = now, !.t3 = now,
                   !.inner = inner, !.out = out]
            /\ UNCHANGED <<users, secrets, now, procs>>

\* POST /auth/register
RegisterReq ==
    \E email \in Emails, password \in RegisterPasswords, salt \in Salts,
       id \in UUIDs, commit \in BOOLEAN :
        LET reg == register_new_user([users |-> users, secrets |-> secrets],
                                     email, password, salt, id, now, commit)
            out == auth_exception_middleware(REGISTER_PATH, router_prefix, reg.out)
        IN  /\ users' = reg.db.users
            /\ secrets' = reg.db.secrets
            /\ last' = [NoRequest EXCEPT
                   !.op = "register", !.path = REGISTER_PATH, !.email = email,
                   !.password = password, !.t1 = now, !.t3 = now,
                   !.commit = commit, !.inner = reg.out, !.out = out]
            /\ UNCHANGED <<now, procs>>

Next ==
    \/ Tick
    \/ ProtectedReq
    \/ AdminReq
    \/ RawReq
    \/ LoginReq
    \/ RegisterReq

Spec == Init /\ [][Next]_vars

\* ------------------------------------------- the store changed from outside
\* The user table is changed by its administrator, not through this API: a
\* user is promoted or demoted.
SetAdmin ==
    \E u \in users :
        /\ users' = (users \ {u}) \cup {[u EXCEPT !.is_admin = ~u.is_admin]}
        /\ last' = [NoRequest EXCEPT !.op = "store", !.t1 = now, !.t3 = now]
        /\ UNCHANGED <<secrets, now, procs>>

\* A user row is deleted, and its secrets row with it.
DeleteUser ==
    \E u \in users :
        /\ users' = users \ {u}
        /\ secrets' = secrets \ {SecretModel(u.id)}
        /\ last' = [NoRequest EXCEPT !.op = "store", !.t1 = now, !.t3 = now]
        /\ UNCHANGED <<now, procs>>

\* Requests one after another, the store changing in between.
NextStore ==
    \/ Tick
    \/ LoginReq
    \/ RegisterReq
    \/ AdminReq
    \/ SetAdmin
    \/ DeleteUser

SpecStore == Init /\ [][NextStore]_vars

\* ---------------------------------------------- requests that overlap
\* Each request is a sequential pipeline that is suspended at its database
\* calls; a step below runs from one await to the next.
EmptyTables == [users |-> {}, secrets |-> {}]

\* The tables are empty, or hold the seeded admin.
InitConc ==
    /\ \E db \in {EmptyTables, SeededAdmin} :
           /\ users = db.users
           /\ secrets = db.secrets
    /\ now = 0
    /\ last = NoRequest
    /\ procs = [p \in Procs |-> Idle]

\* The tokens of the overlapping requests: valid until MaxTime.
ConcTokens ==
    {JwtEncode([user |-> UUIDStr(u), exp |-> MaxTime], SECRET_KEY) : u \in UUIDs}

\* register_new_user up to its first await: get_user(db, email) is answered,
\* and an existing user ends the request with 409.
RegCheck ==
    \E p \in Procs, email \in Emails :
        LET existing_user == get_user(users, email)
        IN  /\ procs[p].pc = "idle"
            /\ procs' = [procs EXCEPT ![p] =
                   IF existing_user # NoUser
                   THEN [Idle EXCEPT
                            !.op = "register", !.pc = "done", !.email = email,
                            !.out = HTTPException(HTTP_409_CONFLICT,
                                                  <<"User already exists">>)]
                   ELSE [Idle EXCEPT
                            !.op = "register", !.pc = "checked",
                            !.email = email]]
            /\ UNCHANGED <<users, secrets, now, last>>

\* register_new_user from create_user on: the rows are added and committed,
\* and the request ends.
RegCreate ==
    \E p \in Procs, password \in RegisterPasswords, salt \in Salts,
       id \in UUIDs, commit \in BOOLEAN :
        LET created == create_user([users |-> users, secrets |-> secrets],
                                   procs[p].email, password, FALSE, salt, id,
                                   now, commit)
        IN  /\ procs[p].pc = "checked"
            /\ users' = created.db.users
            /\ secrets' = created.db.secrets
            /\ procs' = [procs EXCEPT ![p] =
                   IF created.raised
                   THEN [@ EXCEPT !.pc = "done", !.exc = created.exc,
                                  !.out = Raised(created.exc)]
                   ELSE [@ EXCEPT
                            !.pc = "done", !.ret = TRUE,
                            !.uid = created.user.id,
                            !.out = Responded([NoResponse EXCEPT
                                        !.status = HTTP_200_OK,
                                        !.id = created.user.id])]]
            /\ UNCHANGED <<now, last>>

\* get_current_user up to its await of get_user_by_id: the token is decoded
\* and checked and the row is read.
AuthLookup ==
    \E p \in Procs, token \in ConcTokens :
        LET cur == get_current_user(token, None, users, now, now, now, TRUE)
        IN  /\ procs[p].pc = "idle"
            /\ procs' = [procs EXCEPT ![p] =
                   IF cur.ret
                   THEN [Idle EXCEPT !.op = "auth", !.pc = "found",
                                     !.token = token, !.uid = cur.user.id]
                   ELSE [Idle EXCEPT !.op = "auth", !.pc = "done",
                                     !.token = token, !.exc = cur.exc,
                                     !.out = Raised(cur.exc)]]
            /\ UNCHANGED <<users, secrets, now, last>>

\* get_current_user resumes with the row: it reads the clock, sets
\* last_active on its object and awaits db.commit().
AuthStamp ==
    \E p \in Procs :
        /\ procs[p].pc = "found"
        /\ procs' = [procs EXCEPT ![p] = [@ EXCEPT !.pc = "stamped", !.t = now]]
        /\ UNCHANGED <<users, secrets, now, last>>

\* The commit writes the row's last_active, and get_current_user returns.
AuthCommit ==
    \E p \in Procs :
        LET user == get_user_by_id(users, procs[p].uid)
        IN  /\ procs[p].pc = "stamped"
            /\ user # NoUser
            /\ users' = Touch(users, user, procs[p].t)
            /\ procs' = [procs EXCEPT ![p] = [@ EXCEPT !.pc = "done",
                                                       !.ret = TRUE]]
            /\ UNCHANGED <<secrets, now, last>>

NextConc ==
    \/ Tick
    \/ RegCheck
    \/ RegCreate
    \/ AuthLookup
    \/ AuthStamp
    \/ AuthCommit

SpecConc == InitConc /\ [][NextConc]_vars

\* ============================================================ claims
\* Read off the request handled last.
Presented == IF last.token # None THEN last.token ELSE last.credentials
HasClaim(tok, c) == tok.form = "jwt" /\ c \in DOMAIN tok.payload
AuthKinds == {"missing_credentials", "invalid_token", "invalid_credentials",
              "no_expiration", "expired", "user_not_found"}
\* An exception is a Classified Failure: ValueError("auth:<kind>:<detail>").
Classified(exc) ==
    /\ exc.type = "ValueError"
    /\ Len(exc.msg) >= 4
    /\ exc.msg[1] = "auth" /\ exc.msg[2] = ":" /\ exc.msg[4] = ":"
    /\ exc.msg[3] \in AuthKinds
KindOf(exc) == IF Classified(exc) THEN exc.msg[3] ELSE "unclassified"
Resolves(subject) == \E u \in users : UUIDStr(u.id) = subject

\* The step of the specified order that a presented token matches first,
\* the clock reading t.
FirstMatch(tok, t) ==
    IF tok.form \in {"none", "empty"} THEN "missing_credentials"
    ELSE IF tok.form # "jwt" \/ tok.key # SECRET_KEY THEN "invalid_token"
    ELSE IF "user" \notin DOMAIN tok.payload THEN "invalid_credentials"
    ELSE IF "exp" \notin DOMAIN tok.payload THEN "no_expiration"
    ELSE IF t > tok.payload.exp THEN "expired"
    ELSE IF ~Resolves(tok.payload.user) THEN "user_not_found"
    ELSE "success"

\* The whole request saw one side of the token's expiry, and the token's
\* claims, when it has them, are a UUID's string and a representable time.
Settled ==
    /\ last.op = "protected"
    /\ last.commit
    /\ last.token # EmptyString
    /\ HasClaim(Presented, "exp") =>
           /\ Presented.payload.exp <= DatetimeMaxTimestamp
           /\ last.t3 < Presented.payload.exp \/ Presented.payload.exp < last.t1
    /\ HasClaim(Presented, "user") => IsUUIDStr(Presented.payload.user)

\* C1: get_current_user reports the failure of the lowest-numbered step of
\* the specified order that the token matches (missing_credentials,
\* invalid_token, invalid_credentials, no_expiration, expired,
\* user_not_found), and succeeds when none matches.
C1_StrictOrder ==
    Settled =>
        LET step == FirstMatch(Presented, last.t1)
        IN  IF step = "success" THEN last.cur.ret
            ELSE ~last.cur.ret /\ KindOf(last.cur.exc) = step

\* C2: a correctly signed token with a subject whose expires_at is in the
\* past fails with kind expired, and the translator answers 401 with
\* WWW-Authenticate: Bearer and the body {"detail": "Token has expired"}.
C2_ExpiredAnswer ==
    ( /\ last.op = "protected"
      /\ last.path = API_PATH
      /\ Presented.form = "jwt" /\ Presented.key = SECRET_KEY
      /\ HasClaim(Presented, "user") /\ HasClaim(Presented, "exp")
      /\ Presented.payload.exp < last.t1 )
    => /\ KindOf(last.cur.exc) = "expired"
       /\ last.out = Responded(JSONResponse(401, <<"Token has expired">>,
                                            {<<"WWW-Authenticate", "Bearer">>}))

\* C3: an authentication attempt whose commit does not fail ends with a user
\* record or with a Classified Failure, whatever the token.
C3_ClassifiedOrUser ==
    (last.op = "protected" /\ last.commit)
    => (last.cur.ret \/ Classified(last.cur.exc))

\* C4: an auth-tagged ValueError raised while handling a request whose path
\* is outside router_prefix leaves the middleware as the same exception.
C4_PrefixScoped ==
    ( /\ last.inner.kind = "raise"
      /\ last.inner.exc.type = "ValueError"
      /\ StartsWith(last.inner.exc.msg, <<"auth", ":">>)
      /\ ~StartsWith(last.path, router_prefix) )
    => last.out = last.inner

\* C5: every 401 response carries WWW-Authenticate: Bearer and no 403
\* response does.
C5_ChallengeOn401 ==
    last.out.kind = "response" =>
        /\ last.out.resp.status = 401
               => <<"WWW-Authenticate", "Bearer">> \in last.out.resp.headers
        /\ last.out.resp.status = 403
               => <<"WWW-Authenticate", "Bearer">> \notin last.out.resp.headers

\* C6: a register for an email that has a user record answers 409 and
\* leaves both tables as they were, and no two user records share an email.
OneUserPerEmail == \A u, v \in users : u.email = v.email => u = v
RegisterStep == last'.op = "register" /\ now' = now
C6_RegisterConflict ==
    /\ []OneUserPerEmail
    /\ [][(RegisterStep /\ \E u \in users : u.email = last'.email)
              => /\ last'.out.kind = "response"
                 /\ last'.out.resp.status = 409
                 /\ users' = users
                 /\ secrets' = secrets]_vars
C6_Witness ==
    /\ last.op = "register"
    /\ last.out.kind = "response" /\ last.out.resp.status = 409
    /\ \E u \in users : u.email = last.email /\ ~u.is_admin

\* C7: for an auth:<kind>:<detail> ValueError the translator answers with
\* the table's status for <kind> (500 when the table has none) and the body
\* {"detail": <detail>}, the detail being all the text after the second
\* colon.
TableStatus(kind) ==
    IF kind \in {<<"missing_credentials">>, <<"invalid_credentials">>,
                 <<"no_expiration">>, <<"expired">>, <<"user_not_found">>,
                 <<"invalid_token">>}
    THEN 401
    ELSE IF kind = <<"forbidden">> THEN 403 ELSE 500
\* The place of the second colon of an auth-tagged message, 0 without one.
SecondColon(msg) ==
    IF \E i \in 3..Len(msg) : msg[i] = ":"
    THEN CHOOSE i \in 3..Len(msg) :
             msg[i] = ":" /\ \A j \in 3..(i - 1) : msg[j] # ":"
    ELSE 0
Tagged(o) ==
    /\ o.kind = "raise"
    /\ o.exc.type = "ValueError"
    /\ Len(o.exc.msg) >= 2 /\ o.exc.msg[1] = "auth" /\ o.exc.msg[2] = ":"
    /\ SecondColon(o.exc.msg) # 0
C7_StatusTable ==
    Tagged(last.inner) =>
        LET msg == last.inner.exc.msg
            c == SecondColon(msg)
        IN  /\ last.out.kind = "response"
            /\ last.out.resp.status = TableStatus(SubSeq(msg, 3, c - 1))
            /\ last.out.resp.detail = SubSeq(msg, c + 1, Len(msg))
            /\ last.out.resp.token = None
            /\ last.out.resp.id = NoUUID
C7_Witness ==
    /\ Tagged(last.inner)
    /\ last.out.resp.status = 500
    /\ \E i \in 1..Len(last.out.resp.detail) : last.out.resp.detail[i] = ":"

\* What get_current_user ends with for the request handled last, had it
\* carried the given cookie and header.
Replayed(token, credentials) ==
    Current(get_current_user(token, credentials, users, last.t1, last.t3,
                             last.t3, last.commit))
SameEnd(a, b) == a.ret = b.ret /\ a.exc = b.exc /\ a.uid = b.uid

\* C8 as claimed: whenever the request carries a cookie named token, the
\* Authorization header has no part in how get_current_user ends.
C8_CookieOnly ==
    (last.op = "protected" /\ last.token # None)
    => SameEnd(last.cur, Replayed(last.token, None))

\* C8 as amended: with a non-empty cookie the header has no part in how
\* get_current_user ends, and with no cookie or an empty one the cookie has
\* none: the header's token alone is validated.
C8_NonEmptyCookieOnly ==
    last.op = "protected" =>
        IF last.token \notin {None, EmptyString}
        THEN SameEnd(last.cur, Replayed(last.token, None))
        ELSE SameEnd(last.cur, Replayed(None, last.credentials))
C8_Witness ==
    /\ last.op = "protected"
    /\ last.token \notin {None, EmptyString}
    /\ last.credentials # None
    /\ last.credentials # last.token
    /\ last.cur.ret
    /\ ~Replayed(None, last.credentials).ret

\* C9: login answers with a token for the stored record's id exactly when
\* the email has a record and the password verifies against its digest;
\* every other login is answered 401 with one and the same response.
NOBODY == "nobody@x"
Verifies(password, hashed) == hashed.digest = <<"bcrypt", hashed.salt, password>>
C9_LoginAnswer ==
    last.op = "login" =>
        LET matches == {u \in users : /\ u.email = last.email
                                      /\ Verifies(last.password, u.hashed_password)}
        IN  IF matches # {}
            THEN /\ last.out.kind = "response"
                 /\ last.out.resp.status = 200
                 /\ last.out.resp.token.form = "jwt"
                 /\ last.out.resp.token.key = SECRET_KEY
                 /\ \E u \in matches :
                        last.out.resp.token.payload.user = UUIDStr(u.id)
            ELSE /\ last.out.kind = "response"
                 /\ last.out.resp.status = 401
                 /\ last.out.resp.detail =
                        <<"Invalid credentials or user does not exist">>
                 /\ last.out.resp.token = None
                 /\ last.out = login(users, NOBODY, last.password, last.t1)
C9_Witness ==
    /\ last.op = "login"
    /\ last.out.resp.status = 401
    /\ \E u \in users : u.email = last.email /\ ~u.is_admin

\* C10: a token that login issued for a user, validated while the clock is
\* before the token's expiry (the time of issue plus
\* ACCESS_TOKEN_EXPIRE_MINUTES), resolves to that user's record.
C10_RoundTrip ==
    ( /\ last.op = "protected"
      /\ last.issued_to # NoUUID
      /\ last.t3 < last.issued_exp
      /\ last.commit )
    => /\ last.cur.ret
       /\ last.cur.uid = last.issued_to
       /\ \E u \in users : u.id = last.issued_to
C10_Witness ==
    /\ last.op = "protected"
    /\ last.issued_to # NoUUID
    /\ last.issued_to # AdminUUID
    /\ last.t3 < last.issued_exp
    /\ last.t3 > last.issued_exp - ACCESS_TOKEN_EXPIRE_MINUTES
    /\ last.cur.ret

\* The token get_current_user validated for the request handled last.
Validated == TokenOf(last.token, last.credentials)
Verified(tok) == tok.form = "jwt" /\ tok.key = SECRET_KEY

\* C11: whenever get_current_user returns a user the token carried both a
\* subject and an expiry; a token whose signature verifies and that has no
\* subject is rejected as invalid_credentials, and one with a subject and
\* no expiry as no_expiration.
C11_BothClaims ==
    last.op = "protected" =>
        /\ last.cur.ret
               => HasClaim(Validated, "user") /\ HasClaim(Validated, "exp")
        /\ (Verified(Validated) /\ ~HasClaim(Validated, "user"))
               => ~last.cur.ret /\ KindOf(last.cur.exc) = "invalid_credentials"
        /\ ( /\ Verified(Validated)
             /\ HasClaim(Validated, "user")
             /\ ~HasClaim(Validated, "exp") )
               => ~last.cur.ret /\ KindOf(last.cur.exc) = "no_expiration"

\* C12: an exception that is no ValueError, a ValueError whose message does
\* not start with "auth:", and a ValueError whose message starts with
\* "auth:" and has no second colon each leave the middleware as the very
\* exception that entered it, and no response is made.
Untranslatable(exc) ==
    \/ exc.type \notin {"ValueError", "ValidationError"}
    \/ ~(Len(exc.msg) >= 2 /\ exc.msg[1] = "auth" /\ exc.msg[2] = ":")
    \/ SecondColon(exc.msg) = 0
C12_PassThrough ==
    (last.inner.kind = "raise" /\ Untranslatable(last.inner.exc))
    => /\ last.out.kind = "raise"
       /\ last.out.exc = last.inner.exc
       /\ last.out.resp = NoResponse
C12_Witness ==
    /\ last.op = "raw"
    /\ last.inner.kind = "raise"
    /\ last.inner.exc = ValueError(<<"auth", ":", "short">>)
    /\ last.out = last.inner

\* C13: a register for an email that has no user record, whose commit in
\* create_user fails, is answered 422 "Unable to create user", and leaves
\* no user record and no secrets record behind.
C13_CommitFailure ==
    [][( /\ RegisterStep
         /\ ~last'.commit
         /\ get_user(users, last'.email) = NoUser )
           => /\ last'.out = HTTPException(HTTP_422_UNPROCESSABLE_ENTITY,
                                           <<"Unable to create user">>)
              /\ users' = users
              /\ secrets' = secrets]_vars

\* A step that handles a request to a route behind get_current_user.
AuthStep == last'.op \in {"protected", "admin"} /\ last'.t3 = now'
\* get_current_user returned a user (is_admin may have refused it after).
GotUser(req) == req.cur.ret \/ req.cur.exc = ValueError(MSG_FORBIDDEN)

\* C16: a get_current_user call that returns a user changes the store in
\* one field only, that user's last_active, which becomes the current time;
\* a call that ends in a Classified Failure leaves the store as it was.
C16_Frame ==
    [][AuthStep =>
           LET tok == TokenOf(last'.token, last'.credentials)
           IN  /\ secrets' = secrets
               /\ GotUser(last')
                      => \E u \in users :
                             /\ UUIDStr(u.id) = tok.payload.user
                             /\ users' = (users \ {u}) \cup
                                    {[u EXCEPT !.last_active = now']}
               /\ (~GotUser(last') /\ Classified(last'.cur.exc))
                      => users' = users]_vars
C16_Witness ==
    /\ last.op = "protected"
    /\ last.cur.ret
    /\ last.t3 > 0
    /\ \E u, v \in users :
           /\ u.id = last.cur.uid
           /\ u.last_active = last.t3
           /\ v.id # u.id
           /\ v.last_active # last.t3

\* C18: a register that succeeds adds, in one step, a user record that is
\* no admin and whose last_active is the time of creation, and that user's
\* secrets record; in every state each user record has exactly one secrets
\* record and each secrets record has its user record.
Paired ==
    /\ \A u \in users : Cardinality({s \in secrets : s.user_id = u.id}) = 1
    /\ \A s \in secrets : \E u \in users : u.id = s.user_id
C18_UserWithSecrets ==
    /\ []Paired
    /\ [][( /\ RegisterStep
            /\ last'.out.kind = "response"
            /\ last'.out.resp.status = HTTP_200_OK )
              => \E u \in users' \ users :
                     /\ users' = users \cup {u}
                     /\ secrets' = secrets \cup {SecretModel(u.id)}
                     /\ SecretModel(u.id) \notin secrets
                     /\ u.id = last'.out.resp.id
                     /\ u.email = last'.email
                     /\ ~u.is_admin
                     /\ u.last_active = now]_vars
C18_Witness ==
    /\ last.op = "register"
    /\ last.out.kind = "response"
    /\ last.out.resp.status = HTTP_200_OK
    /\ \E u \in users :
           /\ u.id = last.out.resp.id
           /\ ~u.is_admin
           /\ u.last_active > 0
           /\ SecretModel(u.id) \in secrets

\* C14: a request to an admin route with a still-valid token is answered
\* from the user record as the store holds it at that request: forbidden
\* exactly when the record is no admin, the record itself when it is one,
\* user_not_found when the record is gone, whatever the store held when the
\* token was issued.
C14_FreshPrivilege ==
    ( /\ last.op = "admin"
      /\ Verified(last.token)
      /\ HasClaim(last.token, "user") /\ HasClaim(last.token, "exp")
      /\ last.t3 < last.token.payload.exp )
    => LET rows == {u \in users : UUIDStr(u.id) = last.token.payload.user}
       IN  IF rows = {}
           THEN ~last.cur.ret /\ KindOf(last.cur.exc) = "user_not_found"
           ELSE \A u \in rows :
                    /\ u.last_active = last.t3
                    /\ IF u.is_admin
                       THEN last.cur.ret /\ last.cur.uid = u.id
                       ELSE /\ ~last.cur.ret
                            /\ last.cur.exc = ValueError(MSG_FORBIDDEN)
C14_Witness ==
    /\ last.op = "admin"
    /\ last.cur.exc = ValueError(MSG_FORBIDDEN)
    /\ \E u \in users :
           /\ UUIDStr(u.id) = last.token.payload.user
           /\ u.email = ADMIN_EMAIL
           /\ ~u.is_admin

\* C15: of the register requests for one new email that overlap, at most
\* one returns a user id, and the store never holds two user records with
\* that email.
Registered(email) ==
    {p \in Procs : /\ procs[p].op = "register"
                   /\ procs[p].email = email
                   /\ procs[p].pc = "done"
                   /\ procs[p].ret}
C15_OneRegistration ==
    \A email \in Emails :
        /\ Cardinality({u \in users : u.email = email}) <= 1
        /\ Cardinality(Registered(email)) <= 1

\* C17: a token resolves to the user id of its subject each time it is
\* validated, and no step, whichever way the requests for one user overlap,
\* takes a stored last_active backwards.
SameSubject ==
    \A p \in Procs :
        ( /\ procs[p].op = "auth"
          /\ procs[p].pc \in {"found", "stamped"} \/ procs[p].ret )
        => UUIDStr(procs[p].uid) = procs[p].token.payload.user
NoBackwards ==
    \A u \in users : \A v \in users' :
        v.id = u.id => v.last_active >= u.last_active
C17_Monotone == []SameSubject /\ [][NoBackwards]_vars

====
